---------------------------- MODULE Spec2Model ----------------------------
(* Model of bridge/src/message_to_mainnet.rs: the MessageToMainnet codec.   *)
(*                                                                          *)
(* Bytes are naturals below 256; byte slices, Address (20 bytes) and H256   *)
(* (32 bytes) are sequences of bytes.  A U256 is kept as its limbs, least   *)
(* significant first, as ethereum_types keeps it; the limbs here are 16     *)
(* bits wide (sixteen of them) because TLC's integers are 32 bits wide.     *)
(* Rust's zero-based half-open ranges bytes[lo..hi] are kept as (lo, hi)    *)
(* arguments and translated to one-based sequences in slice and             *)
(* copy_from_slice only.                                                    *)
EXTENDS Integers, Sequences, FiniteSets, TLC

VARIABLES
    pc,          \* position of the caller
    message,     \* the MessageToMainnet under test
    bytes,       \* Vec<u8>: result of to_bytes, or the raw input of from_bytes
    parsed,      \* result of from_bytes(bytes)
    payload,     \* result of to_payload
    tokens,      \* result of ethabi::decode(&[ParamType::Bytes], payload)
    reparsed,    \* result of from_bytes on the bytes unwrapped from payload
    web3_log,    \* the web3 Log handed to from_log
    result,      \* Result<MessageToMainnet, Error> of from_log
    remembered,  \* an earlier to_bytes call: its message and its output
    calls        \* number of to_bytes calls made so far

vars == <<pc, message, bytes, parsed, payload, tokens, reparsed, web3_log,
          result, remembered, calls>>

---------------------------------------------------------------------------
(* Bounds of the model.                                                     *)

\* byte and limb patterns 0..MaxSeed are drawn as inputs
MaxSeed == 3
\* from_bytes is tried on every length 0..MESSAGE_LENGTH + MaxExtra
MaxExtra == 2
\* to_bytes calls in one run of the determinism harness
MaxCalls == 3

---------------------------------------------------------------------------
(* Bytes, slices and U256.                                                  *)

MESSAGE_LENGTH == 116

None == [some |-> FALSE]
Some(x) == [some |-> TRUE, v |-> x]

Panic == [panic |-> TRUE]

Zeros(n) == [i \in 1..n |-> 0]

\* &bytes[lo..hi]
slice(b, lo, hi) == SubSeq(b, lo + 1, hi)

\* buf[lo..hi].copy_from_slice(src)
copy_from_slice(buf, lo, hi, src) ==
    [i \in 1..Len(buf) |-> IF lo < i /\ i <= hi THEN src[i - lo] ELSE buf[i]]

LimbBase == 256 * 256
NumLimbs == 32 \div 2

U256Zero == [i \in 1..NumLimbs |-> 0]

\* U256::to_big_endian: the 32 bytes, most significant first
to_big_endian(u) ==
    [k \in 1..32 |->
        LET limb == u[NumLimbs - ((k - 1) \div 2)]
        IN  IF k % 2 = 1 THEN limb \div 256 ELSE limb % 256]

\* U256::from_big_endian of a 32-byte slice
from_big_endian(s) ==
    [i \in 1..NumLimbs |-> s[32 - 2 * i + 1] * 256 + s[32 - 2 * i + 2]]

\* u * k + c on limbs, truncated to 256 bits (limb i onwards, carry c)
RECURSIVE MulAddFrom(_, _, _, _)
MulAddFrom(u, k, c, i) ==
    IF i > NumLimbs THEN <<>>
    ELSE LET t == u[i] * k + c
         IN  <<t % LimbBase>> \o MulAddFrom(u, k, t \div LimbBase, i + 1)

\* U256::from_dec_str of a sequence of decimal digits
RECURSIVE from_dec_str(_)
from_dec_str(digits) ==
    IF digits = <<>> THEN U256Zero
    ELSE MulAddFrom(from_dec_str(SubSeq(digits, 1, Len(digits) - 1)),
                    10, digits[Len(digits)], 1)

\* U256::from(u64), the u64 given as its four 16-bit parts, low part first
from_u64(parts) ==
    [i \in 1..NumLimbs |-> IF i <= 4 THEN parts[i] ELSE 0]

---------------------------------------------------------------------------
(* MessageToMainnet.                                                        *)

Message(r, v, h, g) ==
    [recipient |-> r, value |-> v, sidenet_transaction_hash |-> h,
     mainnet_gas_price |-> g]

\* from_bytes reading the value field least significant byte first
from_bytes_le(b) ==
    IF Len(b) # MESSAGE_LENGTH THEN Panic
    ELSE LET v == slice(b, 20, 52)
         IN  Message(slice(b, 0, 20),
                     from_big_endian([i \in 1..32 |-> v[33 - i]]),
                     slice(b, 52, 84),
                     from_big_endian(slice(b, 84, MESSAGE_LENGTH)))

\* from_bytes without the length assertion: only the slicing checks the length
from_bytes_noassert(b) ==
    IF Len(b) < MESSAGE_LENGTH THEN Panic
    ELSE Message(slice(b, 0, 20),
                 from_big_endian(slice(b, 20, 52)),
                 slice(b, 52, 84),
                 from_big_endian(slice(b, 84, MESSAGE_LENGTH)))

\* MessageToMainnet::from_bytes; assert_eq! failing is the panic
from_bytes(b) ==
    IF Len(b) # MESSAGE_LENGTH THEN Panic
    ELSE Message(slice(b, 0, 20),
                 from_big_endian(slice(b, 20, 52)),
                 slice(b, 52, 84),
                 from_big_endian(slice(b, 84, MESSAGE_LENGTH)))

\* the big-endian bytes of u without its leading zero bytes
RECURSIVE StripZeros(_)
StripZeros(s) ==
    IF s # <<>> /\ s[1] = 0 THEN StripZeros(Tail(s)) ELSE s

\* to_bytes with the hash written before the value
to_bytes_swapped(m) ==
    LET result0 == Zeros(MESSAGE_LENGTH)
        result1 == copy_from_slice(result0, 0, 20, m.recipient)
        result2 == copy_from_slice(result1, 20, 52, m.sidenet_transaction_hash)
        result3 == copy_from_slice(result2, 52, 84, to_big_endian(m.value))
    IN  copy_from_slice(result3, 84, MESSAGE_LENGTH,
                        to_big_endian(m.mainnet_gas_price))

\* to_bytes appending the integers in their shortest big-endian form
to_bytes_unpadded(m) ==
    m.recipient \o StripZeros(to_big_endian(m.value))
        \o m.sidenet_transaction_hash
        \o StripZeros(to_big_endian(m.mainnet_gas_price))

\* to_bytes writing into the buffer of the previous call: the integers are
\* written from their first significant byte, the rest keeps the old content
to_bytes_reused(m) ==
    LET result0 == IF Len(bytes) = MESSAGE_LENGTH THEN bytes
                   ELSE Zeros(MESSAGE_LENGTH)
        sig(u) == Len(StripZeros(to_big_endian(u)))
        result1 == copy_from_slice(result0, 0, 20, m.recipient)
        result2 == copy_from_slice(result1, 52 - sig(m.value), 52,
                                   StripZeros(to_big_endian(m.value)))
        result3 == copy_from_slice(result2, 52, 84, m.sidenet_transaction_hash)
    IN  copy_from_slice(result3, MESSAGE_LENGTH - sig(m.mainnet_gas_price),
                        MESSAGE_LENGTH,
                        StripZeros(to_big_endian(m.mainnet_gas_price)))

\* MessageToMainnet::to_bytes
to_bytes(m) ==
    LET result0 == Zeros(MESSAGE_LENGTH)
        result1 == copy_from_slice(result0, 0, 20, m.recipient)
        result2 == copy_from_slice(result1, 20, 52, to_big_endian(m.value))
        result3 == copy_from_slice(result2, 52, 84, m.sidenet_transaction_hash)
    IN  copy_from_slice(result3, 84, MESSAGE_LENGTH,
                        to_big_endian(m.mainnet_gas_price))

---------------------------------------------------------------------------
(* ethabi: the encoding of one token, and its decoding.                     *)

\* a 32-byte word holding n, as ethabi's pad_u32 writes lengths and offsets
pad_u32(n) ==
    [i \in 1..32 |->
        IF i <= 28 THEN 0
        ELSE IF i = 29 THEN n \div (256 * 256 * 256)
        ELSE IF i = 30 THEN (n \div (256 * 256)) % 256
        ELSE IF i = 31 THEN (n \div 256) % 256
        ELSE n % 256]

\* b followed by zero bytes up to the next multiple of 32
pad_right(b) == b \o Zeros((32 - (Len(b) % 32)) % 32)

BytesToken(b) == [kind |-> "Bytes", data |-> b]
FixedBytesToken(b) == [kind |-> "FixedBytes", data |-> b]

\* ethabi::encode(&[token]): a dynamic token is an offset word in the head
\* and, at that offset, its length word and its padded data; a static token
\* is its padded data alone
encode(token) ==
    IF token.kind = "Bytes"
    THEN pad_u32(32) \o pad_u32(Len(token.data)) \o pad_right(token.data)
    ELSE pad_right(token.data)

\* ethabi's as_u32 of the word at byte offset off: an error when the word is
\* cut short or does not fit 32 bits
as_u32(data, off) ==
    IF off + 32 > Len(data) THEN None
    ELSE LET w == slice(data, off, off + 32)
         IN  IF \E i \in 1..28 : w[i] # 0 THEN None
             ELSE Some(((w[29] * 256 + w[30]) * 256 + w[31]) * 256 + w[32])

\* ethabi::decode(&[ParamType::Bytes], data), then tokens.pop().to_bytes():
\* Some(bytes), or None for the decoder's error
decode(data) ==
    LET offset == as_u32(data, 0)
    IN  IF ~offset.some THEN None
        ELSE LET len == as_u32(data, offset.v)
             IN  IF ~len.some THEN None
                 ELSE IF offset.v + 32 + len.v > Len(data) THEN None
                 ELSE Some(slice(data, offset.v + 32, offset.v + 32 + len.v))

\* to_payload handing the message over as a fixed-size bytes token
to_payload_fixed(m) == encode(FixedBytesToken(to_bytes(m)))

\* to_payload leaving the data area unpadded
to_payload_unpadded(m) ==
    pad_u32(32) \o pad_u32(MESSAGE_LENGTH) \o to_bytes(m)

\* MessageToMainnet::to_payload
to_payload(m) == encode(BytesToken(to_bytes(m)))

---------------------------------------------------------------------------
(* The Withdraw event of the foreign bridge contract and from_log.          *)

\* topic 0 of a Withdraw log: the hash of the event's signature
WithdrawSignature == [i \in 1..32 |-> (7 * i + 3) % 256]

\* the data of a Withdraw(address recipient, uint256 value,
\* uint256 homeGasPrice) log, none of its parameters indexed
WithdrawData(r, v, g) ==
    Zeros(12) \o r \o to_big_endian(v) \o to_big_endian(g)

Ok(x) == [ok |-> TRUE, v |-> x]
Err(e) == [ok |-> FALSE, err |-> e]

\* the error parse_log returns
InvalidData == "InvalidData"
\* the error from_log makes of a missing transaction hash
MissingTransactionHash == "log must be mined and contain transaction_hash"

\* Withdraw::default().parse_log(raw_log)
parse_log(raw_log) ==
    IF Len(raw_log.topics) # 1 THEN Err(InvalidData)
    ELSE IF raw_log.topics[1] # WithdrawSignature THEN Err(InvalidData)
    ELSE IF Len(raw_log.data) < 96 THEN Err(InvalidData)
    ELSE Ok([recipient |-> slice(raw_log.data, 12, 32),
             value |-> from_big_endian(slice(raw_log.data, 32, 64)),
             home_gas_price |-> from_big_endian(slice(raw_log.data, 64, 96))])

RawLog(log) == [topics |-> log.topics, data |-> log.data]

\* from_log putting a zero hash where the log has none
from_log_zero_hash(log) ==
    LET withdraw_log == parse_log(RawLog(log))
    IN  IF ~withdraw_log.ok THEN Err(withdraw_log.err)
        ELSE Ok(Message(withdraw_log.v.recipient, withdraw_log.v.value,
                        IF log.transaction_hash.some
                        THEN log.transaction_hash.v ELSE Zeros(32),
                        withdraw_log.v.home_gas_price))

\* from_log looking for the transaction hash before parsing the log
from_log_hash_first(log) ==
    IF ~log.transaction_hash.some THEN Err(MissingTransactionHash)
    ELSE LET withdraw_log == parse_log(RawLog(log))
         IN  IF ~withdraw_log.ok THEN Err(withdraw_log.err)
             ELSE Ok(Message(withdraw_log.v.recipient, withdraw_log.v.value,
                             log.transaction_hash.v,
                             withdraw_log.v.home_gas_price))

\* from_log with value and gas price exchanged
from_log_swapped(log) ==
    LET withdraw_log == parse_log(RawLog(log))
    IN  IF ~withdraw_log.ok THEN Err(withdraw_log.err)
        ELSE IF ~log.transaction_hash.some THEN Err(MissingTransactionHash)
        ELSE Ok(Message(withdraw_log.v.recipient,
                        withdraw_log.v.home_gas_price,
                        log.transaction_hash.v,
                        withdraw_log.v.value))

\* MessageToMainnet::from_log: each `?` returns the error at once
from_log(log) ==
    LET withdraw_log == parse_log(RawLog(log))
    IN  IF ~withdraw_log.ok THEN Err(withdraw_log.err)
        ELSE IF ~log.transaction_hash.some THEN Err(MissingTransactionHash)
        ELSE Ok(Message(withdraw_log.v.recipient, withdraw_log.v.value,
                        log.transaction_hash.v,
                        withdraw_log.v.home_gas_price))

---------------------------------------------------------------------------
(* The inputs the operations are called with.                               *)

\* n bytes, all zero for seed 0 and pairwise different otherwise
Pattern(s, n) == [i \in 1..n |-> (s * (i + 16)) % 256]

\* a U256: zero for seed 0, all bits set for seed 3
LimbPattern(s) ==
    [i \in 1..NumLimbs |-> (s * 21845 + (s % 3) * i * 257) % LimbBase]

\* the message of test_message_to_mainnet_to_bytes
\* 0xeac4a655451e159313c3641e29824e77d6fcb0ce
TestRecipient ==
    <<234, 196, 166, 85, 69, 30, 21, 147, 19, 195,
      100, 30, 41, 130, 78, 119, 214, 252, 176, 206>>
TestValue == from_dec_str(<<3, 8, 0, 0, 0, 0, 0, 0, 0, 0, 0, 0, 0, 0, 0, 0>>)
\* 0x75ebc3036b5a5a758be9a8c0e6f6ed8d46c640dda39845de99d9570ba76798e2
TestHash ==
    <<117, 235, 195, 3, 107, 90, 90, 117, 139, 233, 168, 192, 230, 246, 237,
      141, 70, 198, 64, 221, 163, 152, 69, 222, 153, 217, 87, 11, 167, 103,
      152, 226>>
TestGasPrice == from_dec_str(<<8, 0, 0, 0, 0, 0, 0, 0, 0, 0>>)
TestMessage == Message(TestRecipient, TestValue, TestHash, TestGasPrice)

U256One == from_u64(<<1, 0, 0, 0>>)
U64Max == from_u64(<<LimbBase - 1, LimbBase - 1, LimbBase - 1, LimbBase - 1>>)
U256TopBit == [i \in 1..NumLimbs |-> IF i = NumLimbs THEN LimbBase \div 2 ELSE 0]
U256Max == [i \in 1..NumLimbs |-> LimbBase - 1]

Addresses == {Pattern(s, 20) : s \in 0..MaxSeed} \cup {TestRecipient}
Hashes == {Pattern(s, 32) : s \in 0..MaxSeed} \cup {TestHash}
SeedU256s == {LimbPattern(s) : s \in 0..MaxSeed}
U256s == SeedU256s \cup {TestValue, TestGasPrice, U256One, U64Max, U256TopBit}

Messages ==
    {Message(r, v, h, g) : r \in Addresses, v \in U256s, h \in Hashes,
                           g \in U256s}

\* byte slices of every length around MESSAGE_LENGTH
RawInputs ==
    {Pattern(s, n) : s \in 0..MaxSeed, n \in 0..(MESSAGE_LENGTH + MaxExtra)}

\* logs: of the Withdraw event or not, their data whole or cut short, mined
\* (with a transaction hash) or not
TopicLists ==
    {<<WithdrawSignature>>, <<>>, <<Pattern(1, 32)>>,
     <<WithdrawSignature, Pattern(1, 32)>>}
LogU256s == SeedU256s \cup {TestValue, TestGasPrice}
LogData ==
    {SubSeq(WithdrawData(r, v, g), 1, n) :
        r \in {TestRecipient, Pattern(1, 20)}, v \in LogU256s, g \in LogU256s,
        n \in {0, 64, 95, 96}}
Logs ==
    {[topics |-> t, data |-> d, transaction_hash |-> h] :
        t \in TopicLists, d \in LogData,
        h \in {None} \cup {Some(x) : x \in Hashes}}

\* the messages of the repeated-call harness
DetMessages ==
    {Message(TestRecipient, v, TestHash, g) :
        v \in SeedU256s, g \in {U256Zero, TestGasPrice}}

---------------------------------------------------------------------------
(* The callers.                                                             *)

Unset == [unset |-> TRUE]

\* nothing has been called yet
Fresh ==
    /\ message = Unset
    /\ bytes = <<>>
    /\ parsed = Unset
    /\ payload = <<>>
    /\ tokens = Unset
    /\ reparsed = Unset
    /\ web3_log = Unset
    /\ result = Unset
    /\ remembered = None
    /\ calls = 0

\* a caller holds a message, or a byte slice, or a log
Init ==
    \/ /\ pc = "start"
       /\ message \in Messages
       /\ bytes = <<>>
       /\ parsed = Unset
       /\ payload = <<>>
       /\ tokens = Unset
       /\ reparsed = Unset
       /\ web3_log = Unset
       /\ result = Unset
       /\ remembered = None
       /\ calls = 0
    \/ /\ pc = "raw"
       /\ message = Unset
       /\ bytes \in RawInputs
       /\ parsed = Unset
       /\ payload = <<>>
       /\ tokens = Unset
       /\ reparsed = Unset
       /\ web3_log = Unset
       /\ result = Unset
       /\ remembered = None
       /\ calls = 0
    \/ /\ pc = "log"
       /\ message = Unset
       /\ bytes = <<>>
       /\ parsed = Unset
       /\ payload = <<>>
       /\ tokens = Unset
       /\ reparsed = Unset
       /\ web3_log \in Logs
       /\ result = Unset
       /\ remembered = None
       /\ calls = 0

\* let bytes = message.to_bytes();
Serialize ==
    /\ pc = "start"
    /\ bytes' = to_bytes(message)
    /\ pc' = "serialized"
    /\ UNCHANGED <<message, parsed, payload, tokens, reparsed, web3_log,
                   result, remembered, calls>>

\* MessageToMainnet::from_bytes(bytes.as_slice())
Parse ==
    /\ pc = "serialized"
    /\ parsed' = from_bytes(bytes)
    /\ pc' = "parsed"
    /\ UNCHANGED <<message, bytes, payload, tokens, reparsed, web3_log,
                   result, remembered, calls>>

\* let payload = message.to_payload();
Payload ==
    /\ pc = "parsed"
    /\ payload' = to_payload(message)
    /\ pc' = "payload"
    /\ UNCHANGED <<message, bytes, parsed, tokens, reparsed, web3_log,
                   result, remembered, calls>>

\* ethabi::decode(&[ethabi::ParamType::Bytes], payload.as_slice())
Decode ==
    /\ pc = "payload"
    /\ tokens' = decode(payload)
    /\ pc' = "decoded"
    /\ UNCHANGED <<message, bytes, parsed, payload, reparsed, web3_log,
                   result, remembered, calls>>

\* MessageToMainnet::from_bytes(decoded.as_slice()); the unwrap of a failed
\* decode panics
Reparse ==
    /\ pc = "decoded"
    /\ reparsed' = IF tokens.some THEN from_bytes(tokens.v) ELSE Panic
    /\ pc' = "done"
    /\ UNCHANGED <<message, bytes, parsed, payload, tokens, web3_log,
                   result, remembered, calls>>

\* MessageToMainnet::from_bytes on a byte slice of any length
ParseRaw ==
    /\ pc = "raw"
    /\ parsed' = from_bytes(bytes)
    /\ pc' = "raw_done"
    /\ UNCHANGED <<message, bytes, payload, tokens, reparsed, web3_log,
                   result, remembered, calls>>

\* MessageToMainnet::from_log(web3_log)
FromLog ==
    /\ pc = "log"
    /\ result' = from_log(web3_log)
    /\ pc' = "log_done"
    /\ UNCHANGED <<message, bytes, parsed, payload, tokens, reparsed,
                   web3_log, remembered, calls>>

Next ==
    \/ Serialize
    \/ Parse
    \/ Payload
    \/ Decode
    \/ Reparse
    \/ ParseRaw
    \/ FromLog

Spec == Init /\ [][Next]_vars

(* Repeated calls: to_bytes is called again and again, on any message, with *)
(* from_bytes calls in between; one earlier call is remembered.             *)

InitDet == pc = "det" /\ Fresh

\* message.to_bytes(), the call before it remembered or not
DetCall(m) ==
    /\ pc = "det"
    /\ calls < MaxCalls
    /\ message' = m
    /\ bytes' = to_bytes(m)
    /\ calls' = calls + 1
    /\ \/ UNCHANGED remembered
       \/ /\ calls > 0
          /\ remembered' = [some |-> TRUE, msg |-> message, out |-> bytes]
    /\ UNCHANGED <<pc, parsed, payload, tokens, reparsed, web3_log, result>>

\* MessageToMainnet::from_bytes on the last output
DetParse ==
    /\ pc = "det"
    /\ calls > 0
    /\ parsed' = from_bytes(bytes)
    /\ UNCHANGED <<pc, message, bytes, payload, tokens, reparsed, web3_log,
                   result, remembered, calls>>

NextDet ==
    \/ \E m \in DetMessages : DetCall(m)
    \/ DetParse

SpecDet == InitDet /\ [][NextDet]_vars

---------------------------------------------------------------------------
(* Properties.                                                              *)

\* the positions at which bytes holds message.to_bytes()
Serialized == {"serialized", "parsed", "payload", "decoded", "done"}

\* bit k (k = 0 the least significant) of the number n
Bit(n, k) == (n \div (2 ^ k)) % 2

\* b is the number u written as 32 bytes, most significant byte first: the
\* byte at distance j from the end holds the bits 8j .. 8j+7 of u
IsBigEndianOf(b, u) ==
    /\ Len(b) = 32
    /\ \A k \in 0..255 :
          Bit(b[32 - (k \div 8)], k % 8) = Bit(u[(k \div 16) + 1], k % 16)

\* 0d801472258000, the seven significant bytes of 3800000000000000
TestValueBytes == <<13, 128, 20, 114, 37, 128, 0>>

\* the 116 bytes test_message_to_mainnet_to_bytes expects
TestVector ==
    TestRecipient \o Zeros(25) \o TestValueBytes \o TestHash
        \o Zeros(27) \o <<1, 220, 214, 80, 0>>

\* the fields of bytes lie at the fixed offsets, the integers big-endian
FieldsAtOffsets ==
    /\ slice(bytes, 0, 20) = message.recipient
    /\ IsBigEndianOf(slice(bytes, 20, 52), message.value)
    /\ slice(bytes, 52, 84) = message.sidenet_transaction_hash
    /\ IsBigEndianOf(slice(bytes, 84, MESSAGE_LENGTH), message.mainnet_gas_price)

\* C1: from_bytes(to_bytes(m)) equals m, field by field, for every message m.
C1_RoundTrip ==
    pc \in Serialized \ {"serialized"} =>
        /\ parsed.recipient = message.recipient
        /\ parsed.value = message.value
        /\ parsed.sidenet_transaction_hash = message.sidenet_transaction_hash
        /\ parsed.mainnet_gas_price = message.mainnet_gas_price
        /\ parsed = message

C1_Witness ==
    /\ pc = "parsed"
    /\ message.value = TestValue
    /\ message.mainnet_gas_price = U256TopBit
    /\ parsed = message

\* C2 as stated: to_bytes writes recipient, value, hash and gas price at
\* offsets 0, 20, 52 and 84, the integers big-endian and zero-padded, and the
\* value field of 3800000000000000 ends in 0d8014722580, every byte before
\* these six being zero.
C2_Original ==
    pc \in Serialized =>
        /\ FieldsAtOffsets
        /\ message.value = TestValue =>
              slice(bytes, 20, 52) = Zeros(26) \o <<13, 128, 20, 114, 37, 128>>

\* C2 amended: to_bytes writes recipient, value, hash and gas price at
\* offsets 0, 20, 52 and 84, the integers big-endian and zero-padded, and the
\* value field of 3800000000000000 ends in 0d801472258000, the 25 bytes before
\* these seven being zero; the test's message yields the test's 116 bytes.
C2_Layout ==
    pc \in Serialized =>
        /\ FieldsAtOffsets
        /\ message.value = TestValue =>
              slice(bytes, 20, 52) = Zeros(25) \o TestValueBytes
        /\ message = TestMessage => bytes = TestVector

C2_Witness ==
    /\ pc = "serialized"
    /\ message = TestMessage
    /\ bytes = TestVector

\* C3: to_bytes(m) is exactly MESSAGE_LENGTH = 20 + 32 + 32 + 32 = 116 bytes
\* long, whatever the magnitudes of value and gas price.
C3_FixedLength ==
    pc \in Serialized =>
        /\ Len(bytes) = MESSAGE_LENGTH
        /\ MESSAGE_LENGTH = 20 + 32 + 32 + 32

C3_Witness ==
    /\ pc = "serialized"
    /\ message.value = U256Zero
    /\ message.mainnet_gas_price = U256Max
    /\ Len(bytes) = MESSAGE_LENGTH

\* the log parses as a Withdraw event
Parses(log) == parse_log(RawLog(log)).ok

\* C4 as stated: from_log of a log without a transaction hash fails with the
\* missing-transaction-hash error, whatever else the log holds.
C4_Original ==
    (pc = "log_done" /\ ~web3_log.transaction_hash.some) =>
        result = Err(MissingTransactionHash)

\* C4 amended: from_log of a log without a transaction hash fails and returns
\* no message; the error is the missing-transaction-hash error when the log
\* parses as a Withdraw event, and the event decoder's error when it does not.
C4_MissingHash ==
    (pc = "log_done" /\ ~web3_log.transaction_hash.some) =>
        /\ ~result.ok
        /\ Parses(web3_log) => result = Err(MissingTransactionHash)
        /\ ~Parses(web3_log) => result = Err(InvalidData)

C4_Witness ==
    /\ pc = "log_done"
    /\ ~web3_log.transaction_hash.some
    /\ Parses(web3_log)
    /\ result = Err(MissingTransactionHash)

\* C5: decoding to_payload(m) as one dynamic bytes argument yields exactly the
\* 116 bytes of to_bytes(m), and from_bytes of them equals m.
C5_PayloadRoundTrip ==
    /\ pc \in {"decoded", "done"} =>
          /\ tokens.some
          /\ Len(tokens.v) = MESSAGE_LENGTH
          /\ tokens.v = bytes
    /\ pc = "done" => reparsed = message

C5_Witness ==
    /\ pc = "done"
    /\ message.value = U256Max
    /\ message.recipient = TestRecipient
    /\ reparsed = message

\* a message with every field populated
IsMessage(m) ==
    /\ DOMAIN m = {"recipient", "value", "sidenet_transaction_hash",
                   "mainnet_gas_price"}
    /\ Len(m.recipient) = 20
    /\ Len(m.sidenet_transaction_hash) = 32
    /\ \A f \in {m.recipient, m.sidenet_transaction_hash} :
          \A i \in 1..Len(f) : f[i] \in 0..255
    /\ \A u \in {m.value, m.mainnet_gas_price} :
          /\ Len(u) = NumLimbs
          /\ \A i \in 1..NumLimbs : u[i] \in 0..(LimbBase - 1)

\* C6: from_bytes of a byte sequence whose length is not 116 panics and
\* returns no message; of 116 bytes it returns a fully populated message.
C6_LengthAssert ==
    pc = "raw_done" =>
        /\ Len(bytes) # MESSAGE_LENGTH => parsed = Panic
        /\ Len(bytes) = MESSAGE_LENGTH => IsMessage(parsed)

C6_Witness ==
    /\ pc = "raw_done"
    /\ Len(bytes) = MESSAGE_LENGTH + 1
    /\ parsed = Panic

\* C7: from_log of a log that does not parse as a Withdraw event fails with
\* the event decoder's error and returns no message.
C7_SchemaMismatch ==
    (pc = "log_done" /\ ~Parses(web3_log)) =>
        /\ ~result.ok
        /\ result = Err(parse_log(RawLog(web3_log)).err)
        /\ result.err = InvalidData

C7_Witness ==
    /\ pc = "log_done"
    /\ ~Parses(web3_log)
    /\ ~web3_log.transaction_hash.some
    /\ result = Err(InvalidData)

\* a 32-byte word holding a number below 256
Word(n) == Zeros(31) \o <<n>>

\* C8 as stated: to_payload(m) is a length word equal to 116, then the 116
\* bytes of to_bytes(m), then zero bytes up to 128 bytes of data.
C8_Original ==
    pc \in {"payload", "decoded", "done"} =>
        payload = Word(MESSAGE_LENGTH) \o bytes \o Zeros(128 - MESSAGE_LENGTH)

\* C8 amended: to_payload(m) is an offset word equal to 32, then a length
\* word equal to 116, then the 116 bytes of to_bytes(m), then zero bytes up
\* to 128 bytes of data: 192 bytes in all.
C8_PayloadLayout ==
    pc \in {"payload", "decoded", "done"} =>
        /\ payload = Word(32) \o Word(MESSAGE_LENGTH) \o bytes
                        \o Zeros(128 - MESSAGE_LENGTH)
        /\ Len(payload) = 192

C8_Witness ==
    /\ pc = "payload"
    /\ message = TestMessage
    /\ Len(payload) = 192
    /\ slice(payload, 64, 64 + MESSAGE_LENGTH) = TestVector

C10_FromLogFields ==
    (pc = "log_done" /\ result.ok) =>
        LET withdraw_log == parse_log(RawLog(web3_log)).v
        IN  /\ web3_log.transaction_hash.some
            /\ result.v.sidenet_transaction_hash = web3_log.transaction_hash.v
            /\ result.v.recipient = withdraw_log.recipient
            /\ result.v.value = withdraw_log.value
            /\ result.v.mainnet_gas_price = withdraw_log.home_gas_price
            /\ result.v.recipient = slice(web3_log.data, 12, 32)
            /\ IsBigEndianOf(slice(web3_log.data, 32, 64), result.v.value)
            /\ IsBigEndianOf(slice(web3_log.data, 64, 96),
                             result.v.mainnet_gas_price)

C10_Witness ==
    /\ pc = "log_done"
    /\ result.ok
    /\ result.v.recipient = TestRecipient
    /\ result.v.value = TestValue
    /\ result.v.mainnet_gas_price = TestGasPrice
    /\ result.v.sidenet_transaction_hash = TestHash

=============================================================================
